---- MODULE Spec2Model ----
(***************************************************************************)
(* Model of examples/reference-implementations/api-client.py: one          *)
(* invocation of the dual-mode (human / agent) command line client, from   *)
(* the argument vector to process exit.                                    *)
(*                                                                         *)
(* Strings are atomic here, so the string operations the program relies on *)
(* (startswith, split at '=', json.loads, json.dumps) are given as tables  *)
(* over the finite token alphabet below.  The argument parser is the       *)
(* standard library's argparse as shipped with CPython 3.11, configured as *)
(* in main(): two optional positionals and five options.                   *)
(***************************************************************************)
EXTENDS Integers, Sequences, FiniteSets, TLC

\* ------------------------------------------------------------------ bounds
MaxArgs == 4

\* --------------------------------------------------------------- constants
None == "None"
BASE_URL == "https://jsonplaceholder.typicode.com"
DefaultTimeout == 10

\* The argument tokens a vector is drawn from.
Tokens ==
    { "--agent", "--age", "--", "-h", "--help",
      "get", "post", "/x", "",
      "--data", "--data={}", "--data={\"a\":1}", "--data=[[[[",
      "--timeout=abc", "--timeout=5" }

Range(s) == { s[i] : i \in 1..Len(s) }

\* ------------------------------------------------- string tables (atomic)
\* arg_string[0] in prefix_chars
StartsWithPrefixChar(t) ==
    t \in { "--agent", "--age", "--", "-h", "--help", "--data", "--data={}",
            "--data={\"a\":1}", "--data=[[[[", "--timeout=abc",
            "--timeout=5" }

\* arg_string.split('=', 1) for the tokens that contain '='
SplitEq(t) ==
    CASE t = "--data={}"          -> << "--data", "{}" >>
      [] t = "--data={\"a\":1}"   -> << "--data", "{\"a\":1}" >>
      [] t = "--data=[[[["        -> << "--data", "[[[[" >>
      [] t = "--timeout=abc"      -> << "--timeout", "abc" >>
      [] t = "--timeout=5"        -> << "--timeout", "5" >>
      [] OTHER                    -> << t >>

HasEq(t) == Len(SplitEq(t)) = 2

\* parser.add_argument(...): option string -> destination
OptionStrings == { "--agent", "--base-url", "--timeout", "-h", "--help", "--data" }

OptionDest(o) ==
    CASE o = "--agent"    -> "agent"
      [] o = "--base-url" -> "base_url"
      [] o = "--timeout"  -> "timeout"
      [] o = "-h"         -> "help"
      [] o = "--help"     -> "help"
      [] o = "--data"     -> "data"

\* store_true actions take no argument (nargs = 0), the others exactly one
TakesValue(dest) == dest \in { "base_url", "timeout", "data" }

\* option_string.startswith(option_prefix), for the abbreviations in Tokens
OptionsWithPrefix(p) ==
    IF p = "--age" THEN { "--agent" } ELSE {}

\* int(text) of the --timeout type conversion; ok is FALSE for a ValueError
IntOf(text) ==
    IF text = "5" THEN [ok |-> TRUE, value |-> 5] ELSE [ok |-> FALSE, value |-> 0]

\* _parse_optional: NoOption for a positional, else the option and explicit arg
NoOption == [dest |-> None, explicit |-> None]

ParseOptional(t) ==
    IF ~StartsWithPrefixChar(t) THEN NoOption
    ELSE IF t \in OptionStrings
         THEN [dest |-> OptionDest(t), explicit |-> None]
    ELSE IF HasEq(t) /\ SplitEq(t)[1] \in OptionStrings
         THEN [dest |-> OptionDest(SplitEq(t)[1]), explicit |-> SplitEq(t)[2]]
    ELSE IF Cardinality(OptionsWithPrefix(t)) = 1
         THEN [dest |-> OptionDest(CHOOSE o \in OptionsWithPrefix(t) : TRUE),
               explicit |-> None]
    ELSE NoOption

\* index of the first '--' in the vector, 0 when there is none
FirstDoubleDash(argv) ==
    IF \E i \in 1..Len(argv) : argv[i] = "--"
    THEN CHOOSE i \in 1..Len(argv) :
            argv[i] = "--" /\ \A j \in 1..(i-1) : argv[j] # "--"
    ELSE 0

\* arg_strings_pattern: 'O' option, 'A' argument, '-' the first '--'
Pattern(argv) ==
    LET dd == FirstDoubleDash(argv)
    IN  [ i \in 1..Len(argv) |->
            IF dd # 0 /\ i > dd THEN "A"
            ELSE IF dd # 0 /\ i = dd THEN "-"
            ELSE IF ParseOptional(argv[i]) = NoOption THEN "A" ELSE "O" ]

\* number of consecutive '-' of the pattern starting at index i
RECURSIVE Dashes(_, _)
Dashes(pat, i) ==
    IF i <= Len(pat) /\ pat[i] = "-" THEN 1 + Dashes(pat, i + 1) ELSE 0

\* length matched by '(-*A?-*)' (nargs='?') at index i
MatchOptionalArg(pat, i) ==
    LET d1 == Dashes(pat, i)
        a  == IF i + d1 <= Len(pat) /\ pat[i + d1] = "A" THEN 1 ELSE 0
    IN  d1 + a + Dashes(pat, i + d1 + a)

\* an option's pattern has the '-*' removed: '(A)' for nargs=None matches
\* exactly one argument at index i, -1 when there is none
MatchOneArg(pat, i) ==
    IF i <= Len(pat) /\ pat[i] = "A" THEN 1 ELSE -1

\* '()' for nargs=0 (store_true) matches nothing
MatchNoArg(pat, i) == 0

\* _get_values: arg_strings.remove('--') drops the first '--'
StripDoubleDash(s) ==
    LET dd == FirstDoubleDash(s)
    IN  IF dd = 0 THEN s
        ELSE SubSeq(s, 1, dd - 1) \o SubSeq(s, dd + 1, Len(s))

Slice(s, from, count) == SubSeq(s, from, from + count - 1)

DefaultNamespace ==
    [ agent |-> FALSE, help |-> FALSE, command |-> None, endpoint |-> None,
      data |-> None, timeout |-> DefaultTimeout, base_url |-> BASE_URL ]

InitParse ==
    [ i |-> 1, pos |-> << "command", "endpoint" >>, ns |-> DefaultNamespace,
      extras |-> <<>>, err |-> FALSE ]

\* take_action for a positional: default when empty, choices for command
TakePositional(st, dest, vals) ==
    IF vals = <<>> THEN st
    ELSE IF dest = "command"
         THEN IF vals[1] \in { "get", "post" }
              THEN [st EXCEPT !.ns.command = vals[1]]
              ELSE [st EXCEPT !.err = TRUE]
         ELSE [st EXCEPT !.ns.endpoint = vals[1]]

\* consume_positionals: every remaining positional is nargs='?', so the
\* partial match always takes all of them, each with what '(-*A?-*)' matches
RECURSIVE ConsumePositionals(_, _, _)
ConsumePositionals(st, argv, pat) ==
    IF st.pos = <<>> THEN st
    ELSE LET n    == MatchOptionalArg(pat, st.i)
             vals == StripDoubleDash(Slice(argv, st.i, n))
             st2  == TakePositional(st, Head(st.pos), vals)
         IN  ConsumePositionals(
                [st2 EXCEPT !.i = st.i + n, !.pos = Tail(st.pos)], argv, pat)

\* take_action for an option with its argument strings
TakeOptional(st, dest, vals) ==
    CASE dest = "agent"    -> [st EXCEPT !.ns.agent = TRUE]
      [] dest = "help"     -> [st EXCEPT !.ns.help = TRUE]
      [] dest = "data"     -> [st EXCEPT !.ns.data = vals[1]]
      [] dest = "base_url" -> [st EXCEPT !.ns.base_url = vals[1]]
      [] dest = "timeout"  -> IF ~IntOf(vals[1]).ok
                              THEN [st EXCEPT !.err = TRUE]
                              ELSE [st EXCEPT !.ns.timeout = IntOf(vals[1]).value]

\* consume_optional at index st.i
ConsumeOptional(st, argv, pat) ==
    LET opt == ParseOptional(argv[st.i])
    IN  IF opt.explicit # None
        THEN IF TakesValue(opt.dest)
             THEN [TakeOptional(st, opt.dest, << opt.explicit >>)
                      EXCEPT !.i = st.i + 1]
             ELSE [st EXCEPT !.err = TRUE]
        ELSE LET n == IF TakesValue(opt.dest)
                      THEN MatchOneArg(pat, st.i + 1)
                      ELSE MatchNoArg(pat, st.i + 1)
             IN  IF n < 0 THEN [st EXCEPT !.err = TRUE]
                 ELSE [TakeOptional(st, opt.dest,
                          StripDoubleDash(Slice(argv, st.i + 1, n)))
                          EXCEPT !.i = st.i + 1 + n]

OptionIndices(pat) == { i \in 1..Len(pat) : pat[i] = "O" }

Max(S) == CHOOSE x \in S : \A y \in S : y <= x
Min(S) == CHOOSE x \in S : \A y \in S : x <= y

\* _parse_known_args: positionals and optionals consumed alternately
RECURSIVE ParseLoop(_, _, _)
ParseLoop(st, argv, pat) ==
    LET oidx == OptionIndices(pat)
    IN  IF st.err THEN st
        ELSE IF oidx # {} /\ st.i <= Max(oidx)
        THEN LET nexto == Min({ j \in oidx : j >= st.i })
                 s1    == IF st.i # nexto
                          THEN ConsumePositionals(st, argv, pat) ELSE st
             IN  IF s1.err THEN s1
                 ELSE IF st.i # nexto /\ s1.i > st.i
                 THEN ParseLoop(s1, argv, pat)
                 ELSE LET s2 == IF s1.i \notin oidx
                                THEN [s1 EXCEPT
                                        !.extras = @ \o SubSeq(argv, s1.i, nexto - 1),
                                        !.i = nexto]
                                ELSE s1
                      IN  ParseLoop(ConsumeOptional(s2, argv, pat), argv, pat)
        ELSE LET s3 == ConsumePositionals(st, argv, pat)
             IN  [s3 EXCEPT !.extras = @ \o SubSeq(argv, s3.i, Len(argv)),
                            !.i = Len(argv) + 1]

\* parser.parse_args(): ok = FALSE stands for parser.error (usage, exit 2)
ParseArgs(argv) ==
    LET st == ParseLoop(InitParse, argv, Pattern(argv))
    IN  IF st.err \/ st.extras # <<>>
        THEN [ok |-> FALSE, ns |-> DefaultNamespace]
        ELSE [ok |-> TRUE, ns |-> st.ns]


\* ------------------------------------------------------------ json tables
NoneValue == [type |-> "NoneType", keys |-> <<>>, vals |-> <<>>]
EmptyObject == [type |-> "object", keys |-> <<>>, vals |-> <<>>]
ObjectA == [type |-> "object", keys |-> << "a" >>, vals |-> << 1 >>]
ObjectId == [type |-> "object", keys |-> << "id" >>, vals |-> << 1 >>]

\* json.loads(text): the value, or the exception it raises.  "[[[[" stands
\* for a text nested deeper than the interpreter's recursion limit.
JsonLoads(text) ==
    CASE text = "{}"           -> [status |-> "ok", value |-> EmptyObject]
      [] text = "{\"a\":1}"    -> [status |-> "ok", value |-> ObjectA]
      [] text = "{\"a\": 1}"   -> [status |-> "ok", value |-> ObjectA]
      [] text = "{\"id\": 1}"  -> [status |-> "ok", value |-> ObjectId]
      [] text = "[[[["         -> [status |-> "RecursionError", value |-> NoneValue]
      [] OTHER                 -> [status |-> "JSONDecodeError", value |-> NoneValue]

\* json.dumps(value): the default separators put a space after ':'
JsonDumps(v) ==
    CASE v = EmptyObject -> "{}"
      [] v = ObjectA     -> "{\"a\": 1}"
      [] v = ObjectId    -> "{\"id\": 1}"
      [] OTHER           -> "null"

\* Python truthiness of a parsed value: None and empty containers are false
Truthy(v) == v.type # "NoneType" /\ Len(v.keys) > 0

\* Python truthiness of an optional string (None and '' are false)
StrTruthy(x) == x # None /\ x # ""

\* ------------------------------------------------------- error call sites
\* (code, error_type) as written at each call of error()
SiteNotFound        == [code |-> 100, error_type |-> "NOT_FOUND"]
SiteHttpError       == [code |-> 1,   error_type |-> "HTTP_ERROR"]
SiteNetworkError    == [code |-> 101, error_type |-> "NETWORK_ERROR"]
SiteTimeout         == [code |-> 102, error_type |-> "TIMEOUT"]
SiteInvalidResponse == [code |-> 103, error_type |-> "INVALID_JSON"]
SiteUnexpected      == [code |-> 1,   error_type |-> "UNEXPECTED_ERROR"]
SiteMissingCommand  == [code |-> 2,   error_type |-> "MISSING_COMMAND"]
SiteMissingEndpoint == [code |-> 2,   error_type |-> "MISSING_ENDPOINT"]
SiteMissingData     == [code |-> 2,   error_type |-> "MISSING_DATA"]
SiteInvalidData     == [code |-> 2,   error_type |-> "INVALID_JSON"]

ErrorCallSites ==
    { SiteNotFound, SiteHttpError, SiteNetworkError, SiteTimeout,
      SiteInvalidResponse, SiteUnexpected, SiteMissingCommand,
      SiteMissingEndpoint, SiteMissingData, SiteInvalidData }

NoSite == [code |-> -1, error_type |-> None]

\* ----------------------------------------------------------- output lines
HelpLine(which) == [fmt |-> "text", content |-> which, indent |-> 0]

show_agent_help == << HelpLine("agent_help") >>
show_human_help == << HelpLine("human_help") >>

\* what error() prints to standard error
ErrorLine(code, error_type, message, agent) ==
    IF agent
    THEN [fmt |-> "json", keys |-> { "error", "message", "code" },
          error |-> error_type, message |-> message, code |-> code]
    ELSE [fmt |-> "text", keys |-> {}, error |-> "",
          message |-> << "Error: " >> \o message, code |-> -1]

\* what argparse's parser.error prints: the usage and the message, as text
UsageLine ==
    [fmt |-> "usage", keys |-> {}, error |-> "", message |-> <<>>, code |-> -1]

\* what the interpreter prints for an uncaught exception
TracebackLine ==
    [fmt |-> "traceback", keys |-> {}, error |-> "", message |-> <<>>, code |-> -1]

\* a variant that prints a progress line before the document
ResultOutput_Logged(value, agent) ==
    << [fmt |-> "text", content |-> "Fetching...", indent |-> 0],
       [fmt |-> "json", content |-> JsonDumps(value),
        indent |-> IF agent THEN 0 ELSE 2] >>

\* the final print of main(): compact JSON in agent mode, indented otherwise
ResultOutput(value, agent) ==
    << [fmt |-> "json", content |-> JsonDumps(value),
        indent |-> IF agent THEN 0 ELSE 2] >>

\* ------------------------------------------------------------- validation
\* main() between the help test and the request: the error() call reached
\* first, or the uncaught exception of json.loads, or the parsed POST data
Validate(ns) ==
    IF ~StrTruthy(ns.command)
    THEN [status |-> "error", site |-> SiteMissingCommand,
          message |-> << "Command required (get or post)" >>,
          post_data |-> NoneValue]
    ELSE IF ~StrTruthy(ns.endpoint)
    THEN [status |-> "error", site |-> SiteMissingEndpoint,
          message |-> << "Endpoint required" >>, post_data |-> NoneValue]
    ELSE IF ns.command # "post"
    THEN [status |-> "ok", site |-> NoSite, message |-> <<>>,
          post_data |-> NoneValue]
    ELSE IF ~StrTruthy(ns.data)
    THEN [status |-> "error", site |-> SiteMissingData,
          message |-> << "POST requires --data argument" >>,
          post_data |-> NoneValue]
    ELSE IF JsonLoads(ns.data).status = "JSONDecodeError"
    THEN [status |-> "error", site |-> SiteInvalidData,
          message |-> << "Data must be valid JSON" >>, post_data |-> NoneValue]
    ELSE IF JsonLoads(ns.data).status # "ok"
    THEN [status |-> "crash", site |-> NoSite, message |-> <<>>,
          post_data |-> NoneValue]
    ELSE [status |-> "ok", site |-> NoSite, message |-> <<>>,
          post_data |-> JsonLoads(ns.data).value]

\* ---------------------------------------------------------------- request
\* command.upper()
Upper(command) == IF command = "get" THEN "GET" ELSE "POST"

NoRequest == [method |-> None, url |-> <<>>, body |-> None, timeout |-> 0]

\* base_url.rstrip('/') and endpoint.lstrip('/')
RStripSlash(text) == text
LStripSlash(text) == IF text = "/x" THEN "x" ELSE text

\* the urllib.request.Request built by make_request
BuildRequest(method, endpoint, data, base_url, timeout) ==
    [method |-> method,
     url |-> << RStripSlash(base_url), "/", LStripSlash(endpoint) >>,
     body |-> IF Truthy(data) THEN JsonDumps(data) ELSE None,
     timeout |-> timeout]

\* what the network and the server can do with the request
Responses ==
    { "ok", "http_404", "http_403", "unreachable", "connect_timeout",
      "read_timeout", "not_json", "not_utf8", "too_deep",
      "incomplete_read" }

NoException == [class |-> None, status |-> 0]

\* the exception raised inside the try block of make_request.  urlopen
\* wraps an OSError of the connection phase, a timeout included, in
\* URLError; a timeout while reading the response is raised as it is.
Raised(resp) ==
    CASE resp = "ok"              -> NoException
      [] resp = "http_404"        -> [class |-> "HTTPError", status |-> 404]
      [] resp = "http_403"        -> [class |-> "HTTPError", status |-> 403]
      [] resp = "unreachable"     -> [class |-> "URLError", status |-> 0]
      [] resp = "connect_timeout" -> [class |-> "URLError", status |-> 0]
      [] resp = "read_timeout"    -> [class |-> "TimeoutError", status |-> 0]
      [] resp = "not_json"        -> [class |-> "JSONDecodeError", status |-> 0]
      [] resp = "not_utf8"        -> [class |-> "UnicodeDecodeError", status |-> 0]
      [] resp = "too_deep"        -> [class |-> "RecursionError", status |-> 0]
      [] resp = "incomplete_read" -> [class |-> "IncompleteRead", status |-> 0]

\* the classes an exception is an instance of, among those main() names
Bases(class) ==
    CASE class = "HTTPError"          -> { "HTTPError", "URLError", "Exception" }
      [] class = "URLError"           -> { "URLError", "Exception" }
      [] class = "TimeoutError"       -> { "TimeoutError", "Exception" }
      [] class = "JSONDecodeError"    -> { "JSONDecodeError", "Exception" }
      [] class = "UnicodeDecodeError" -> { "Exception" }
      [] class = "RecursionError"     -> { "Exception" }
      [] class = "IncompleteRead"     -> { "Exception" }

\* the except clauses of make_request, in source order
ExceptClauses ==
    << "HTTPError", "URLError", "TimeoutError", "JSONDecodeError", "Exception" >>

\* the first clause that matches the exception
MatchingClause(exc) ==
    LET i == Min({ j \in 1..Len(ExceptClauses) : ExceptClauses[j] \in Bases(exc.class) })
    IN  ExceptClauses[i]

\* a variant whose HTTPError clause does not single out status 404
HandlerSite_No404(exc) ==
    LET clause == MatchingClause(exc)
    IN  CASE clause = "HTTPError"       -> SiteHttpError
          [] clause = "URLError"        -> SiteNetworkError
          [] clause = "TimeoutError"    -> SiteTimeout
          [] clause = "JSONDecodeError" -> SiteInvalidResponse
          [] clause = "Exception"       -> SiteUnexpected

\* the error() call of the matching clause
HandlerSite(exc) ==
    LET clause == MatchingClause(exc)
    IN  CASE clause = "HTTPError" ->
                IF exc.status = 404 THEN SiteNotFound ELSE SiteHttpError
          [] clause = "URLError"        -> SiteNetworkError
          [] clause = "TimeoutError"    -> SiteTimeout
          [] clause = "JSONDecodeError" -> SiteInvalidResponse
          [] clause = "Exception"       -> SiteUnexpected

\* str(n) for the integers that reach a message
Str(n) ==
    CASE n = 5 -> "5" [] n = 10 -> "10" [] n = 403 -> "403" [] n = 404 -> "404"
      [] OTHER -> "n"

\* the message of that call; reasons and str(e) are left symbolic
HandlerMessage(exc, endpoint, timeout) ==
    LET site == HandlerSite(exc)
    IN  CASE site = SiteNotFound        -> << "Resource not found: ", endpoint >>
          [] site = SiteHttpError       -> << "HTTP ", Str(exc.status), ": ", "reason" >>
          [] site = SiteNetworkError    -> << "Network error: ", "reason" >>
          [] site = SiteTimeout         -> << "Request timed out after ", Str(timeout), "s" >>
          [] site = SiteInvalidResponse -> << "Server returned invalid JSON" >>
          [] site = SiteUnexpected      -> << "str(e)" >>

\* the body the server sends when all goes well, and its parsed value
ServerBody == "{\"id\": 1}"

\* ----------------------------------------------------------- early checks
\* '--agent' in sys.argv
EarlyScan(argv) == "--agent" \in Range(argv)

\* '--help' in sys.argv or '-h' in sys.argv
HelpInArgv(argv) == "--help" \in Range(argv) \/ "-h" \in Range(argv)


\* ------------------------------------------------------------------ state
VARIABLES
    argv,        \* sys.argv[1:]
    pc,          \* "start", "parsed", "validated", "responded", "exited"
    agent_mode,  \* the early scan of line 139
    args,        \* the namespace of parser.parse_args()
    post_data,   \* the parsed --data
    request,     \* the request handed to urlopen, NoRequest before
    resp,        \* what the network did with it, None before
    result,      \* the parsed response
    stdout,      \* lines written to standard output
    stderr,      \* lines written to standard error
    exit_code,   \* the process exit status, -1 while running
    err,         \* the (code, error_type) of the error() call taken
    exit_at      \* the step that ended the process

vars == << argv, pc, agent_mode, args, post_data, request, resp, result,
           stdout, stderr, exit_code, err, exit_at >>

\* every argument vector of at most MaxArgs tokens
ArgVectors == UNION { [1..n -> Tokens] : n \in 0..MaxArgs }

Init ==
    /\ argv \in ArgVectors
    /\ pc = "start"
    /\ agent_mode = EarlyScan(argv)
    /\ args = DefaultNamespace
    /\ post_data = NoneValue
    /\ request = NoRequest
    /\ resp = None
    /\ result = NoneValue
    /\ stdout = <<>>
    /\ stderr = <<>>
    /\ exit_code = -1
    /\ err = NoSite
    /\ exit_at = None

\* sys.exit(code) at step `at`
Exit(code, at) ==
    /\ pc' = "exited"
    /\ exit_code' = code
    /\ exit_at' = at

\* error(code, error_type, message, agent): print to stderr and exit
Error(site, message, agent, at) ==
    /\ stderr' = Append(stderr, ErrorLine(site.code, site.error_type, message, agent))
    /\ err' = site
    /\ Exit(site.code, at)

\* lines 142-144: --agent together with a help token in the raw arguments
EarlyAgentHelp ==
    /\ pc = "start"
    /\ agent_mode /\ HelpInArgv(argv)
    /\ stdout' = stdout \o show_agent_help
    /\ Exit(0, "help")
    /\ UNCHANGED << argv, agent_mode, args, post_data, request, resp, result,
                    stderr, err >>

\* lines 147-159, the parser accepts the vector
ParseArguments ==
    /\ pc = "start"
    /\ ~(agent_mode /\ HelpInArgv(argv))
    /\ ParseArgs(argv).ok
    /\ args' = ParseArgs(argv).ns
    /\ pc' = "parsed"
    /\ UNCHANGED << argv, agent_mode, post_data, request, resp, result,
                    stdout, stderr, exit_code, err, exit_at >>

\* lines 147-159, the parser rejects the vector: usage on stderr, exit 2
ParserError ==
    /\ pc = "start"
    /\ ~(agent_mode /\ HelpInArgv(argv))
    /\ ~ParseArgs(argv).ok
    /\ stderr' = Append(stderr, UsageLine)
    /\ Exit(2, "parse")
    /\ UNCHANGED << argv, agent_mode, args, post_data, request, resp, result,
                    stdout, err >>

\* lines 162-167
ShowHelp ==
    /\ pc = "parsed"
    /\ args.help
    /\ stdout' = stdout \o (IF args.agent THEN show_agent_help ELSE show_human_help)
    /\ Exit(0, "help")
    /\ UNCHANGED << argv, agent_mode, args, post_data, request, resp, result,
                    stderr, err >>

\* lines 170-184, one of the four error() calls
RejectArguments ==
    /\ pc = "parsed"
    /\ ~args.help
    /\ Validate(args).status = "error"
    /\ Error(Validate(args).site, Validate(args).message, args.agent, "validate")
    /\ UNCHANGED << argv, agent_mode, args, post_data, request, resp, result,
                    stdout >>

\* line 182, json.loads raises something the except clause does not name
DataParseCrash ==
    /\ pc = "parsed"
    /\ ~args.help
    /\ Validate(args).status = "crash"
    /\ stderr' = Append(stderr, TracebackLine)
    /\ Exit(1, "validate")
    /\ UNCHANGED << argv, agent_mode, args, post_data, request, resp, result,
                    stdout, err >>

\* lines 170-184, nothing to complain about
AcceptArguments ==
    /\ pc = "parsed"
    /\ ~args.help
    /\ Validate(args).status = "ok"
    /\ post_data' = Validate(args).post_data
    /\ pc' = "validated"
    /\ UNCHANGED << argv, agent_mode, args, request, resp, result, stdout,
                    stderr, exit_code, err, exit_at >>

\* lines 187-194 and 108-120, the call returns the parsed response
RequestSucceeds ==
    /\ pc = "validated"
    /\ \E r \in Responses :
         /\ Raised(r) = NoException
         /\ resp' = r
    /\ request' = BuildRequest(Upper(args.command), args.endpoint, post_data,
                               args.base_url, args.timeout)
    /\ result' = JsonLoads(ServerBody).value
    /\ pc' = "responded"
    /\ UNCHANGED << argv, agent_mode, args, post_data, stdout, stderr,
                    exit_code, err, exit_at >>

\* lines 187-194 and 108-134, the call raises and an except clause exits
RequestFails ==
    /\ pc = "validated"
    /\ \E r \in Responses :
         /\ Raised(r) # NoException
         /\ resp' = r
         /\ Error(HandlerSite(Raised(r)),
                  HandlerMessage(Raised(r), args.endpoint, args.timeout),
                  args.agent, "request")
    /\ request' = BuildRequest(Upper(args.command), args.endpoint, post_data,
                               args.base_url, args.timeout)
    /\ UNCHANGED << argv, agent_mode, args, post_data, result, stdout >>

\* lines 197-202
PrintResult ==
    /\ pc = "responded"
    /\ stdout' = stdout \o ResultOutput(result, args.agent)
    /\ Exit(0, "output")
    /\ UNCHANGED << argv, agent_mode, args, post_data, request, resp, result,
                    stderr, err >>

Next ==
    \/ EarlyAgentHelp
    \/ ParseArguments
    \/ ParserError
    \/ ShowHelp
    \/ RejectArguments
    \/ DataParseCrash
    \/ AcceptArguments
    \/ RequestSucceeds
    \/ RequestFails
    \/ PrintResult

Spec == Init /\ [][Next]_vars


\* ------------------------------------------------- the run as a function
\* main() from the argument vector and the network's behaviour to the exit
\* code and the kind of outcome: "HELP", "USAGE" (parser.error), "CRASH"
\* (uncaught exception), "SUCCESS", or the error_type given to error()
RunMain(av, r) ==
    IF EarlyScan(av) /\ HelpInArgv(av) THEN [code |-> 0, kind |-> "HELP"]
    ELSE IF ~ParseArgs(av).ok THEN [code |-> 2, kind |-> "USAGE"]
    ELSE LET ns == ParseArgs(av).ns
             v  == Validate(ns)
         IN  IF ns.help THEN [code |-> 0, kind |-> "HELP"]
             ELSE IF v.status = "error"
                  THEN [code |-> v.site.code, kind |-> v.site.error_type]
             ELSE IF v.status = "crash" THEN [code |-> 1, kind |-> "CRASH"]
             ELSE IF Raised(r) # NoException
                  THEN [code |-> HandlerSite(Raised(r)).code,
                        kind |-> HandlerSite(Raised(r)).error_type]
             ELSE [code |-> 0, kind |-> "SUCCESS"]

\* the same classification read off the state of a finished run
Observed ==
    [code |-> exit_code,
     kind |-> IF exit_at = "help" THEN "HELP"
              ELSE IF exit_at = "parse" THEN "USAGE"
              ELSE IF exit_at = "output" THEN "SUCCESS"
              ELSE IF err = NoSite THEN "CRASH"
              ELSE err.error_type]

Exited == pc = "exited"


\* ----------------------------------------------------------------- claims
\* the exit codes listed under ERROR CODES in the agent help
DocumentedExitCodes == { 0, 1, 2, 100, 101, 102, 103 }

OneJsonDocument(out) ==
    /\ Len(out) = 1
    /\ out[1].fmt = "json"
    /\ JsonLoads(out[1].content).status = "ok"

\* C1 (as stated): with --agent among the arguments, whatever is written to
\* standard output, on the help path too, is exactly one JSON document.
C1_Original ==
    (EarlyScan(argv) /\ stdout # <<>>) => OneJsonDocument(stdout)

\* C1 (amended): with --agent among the arguments, on every path other than
\* help that writes to standard output, standard output is exactly one JSON
\* document, and it parses back to the response; on the help path standard
\* output is the plain help text.
C1_AgentStdoutOneJson ==
    EarlyScan(argv) =>
        \/ stdout = <<>>
        \/ /\ exit_at = "help"
           /\ stdout \in { show_agent_help, show_human_help }
        \/ /\ exit_at = "output"
           /\ OneJsonDocument(stdout)
           /\ JsonLoads(stdout[1].content).value = result

C1_Witness ==
    /\ Exited
    /\ EarlyScan(argv)
    /\ exit_at = "output"
    /\ args.agent
    /\ stdout = << [fmt |-> "json", content |-> ServerBody, indent |-> 0] >>

IsErrorObject(line) ==
    /\ line.fmt = "json"
    /\ line.keys = { "error", "message", "code" }

\* C2: with --agent among the arguments, every failing invocation (parser
\* rejections included) writes exactly one JSON object with keys error,
\* message, code to standard error and exits with that object's code.
C2_AgentFailureIsJsonError ==
    (Exited /\ EarlyScan(argv) /\ exit_code # 0) =>
        /\ Len(stderr) = 1
        /\ IsErrorObject(stderr[1])
        /\ stderr[1].code = exit_code

\* C3: whenever -h or --help is among the arguments, in either mode, the
\* process exits 0, reports no error and never issues the request.
C3_HelpAlwaysExitsZero ==
    HelpInArgv(argv) =>
        /\ request = NoRequest
        /\ stderr = <<>>
        /\ Exited => exit_code = 0

\* C4: every failure before the request (parser rejection or one of the
\* validation checks on command, endpoint and --data) exits with code 2,
\* issues no request and, with --agent, leaves standard output empty.
C4_ValidationFailureExitsTwo ==
    (Exited /\ exit_at \in { "parse", "validate" }) =>
        /\ exit_code = 2
        /\ request = NoRequest
        /\ EarlyScan(argv) => stdout = <<>>

\* the classification of request failures the claim C5 states; a timeout is
\* left to C6
C5_ClaimedCode(r) ==
    CASE r = "http_404"    -> 100
      [] r = "http_403"    -> 101
      [] r = "unreachable" -> 101
      [] r = "not_json"    -> 103
      [] r = "not_utf8"    -> 103
      [] r = "too_deep"    -> 103
      [] OTHER             -> 1

C5_Classification(r) ==
    CASE r = "http_404"        -> [code |-> 100, error_type |-> "NOT_FOUND"]
      [] r = "http_403"        -> [code |-> 1,   error_type |-> "HTTP_ERROR"]
      [] r = "unreachable"     -> [code |-> 101, error_type |-> "NETWORK_ERROR"]
      [] r = "connect_timeout" -> [code |-> 101, error_type |-> "NETWORK_ERROR"]
      [] r = "read_timeout"    -> [code |-> 102, error_type |-> "TIMEOUT"]
      [] r = "not_json"        -> [code |-> 103, error_type |-> "INVALID_JSON"]
      [] r = "not_utf8"        -> [code |-> 1,   error_type |-> "UNEXPECTED_ERROR"]
      [] r = "too_deep"        -> [code |-> 1,   error_type |-> "UNEXPECTED_ERROR"]
      [] r = "incomplete_read" -> [code |-> 1,   error_type |-> "UNEXPECTED_ERROR"]

C6_TimeoutExits102 ==
    (Exited /\ resp \in { "connect_timeout", "read_timeout" }) =>
        /\ exit_code = 102
        /\ err.error_type = "TIMEOUT"

\* the vector with every --agent token removed
WithoutAgent(av) == SelectSeq(av, LAMBDA t : t # "--agent")

\* C7: an invocation with --agent and the same invocation without it, under
\* the same network behaviour, end with the same exit code and the same kind
\* of outcome.
C7_ModeDoesNotChangeClassification ==
    (Exited /\ EarlyScan(argv)) =>
        \A r \in (IF resp = None THEN Responses ELSE { resp }) :
            RunMain(WithoutAgent(argv), r) = Observed

\* C8: no error kind is reported with two different exit codes across the
\* error() call sites, and every exit code is a documented one.
C8_KindDeterminesCode ==
    /\ Exited => exit_code \in DocumentedExitCodes
    /\ err # NoSite =>
          \A site \in ErrorCallSites :
              site.error_type = err.error_type => site.code = err.code

\* C9: the mode is agent exactly when --agent is among the arguments: the
\* parsed flag agrees with the early scan, and the help text, every error and
\* the result are formatted for that mode.
C9_ModeIsTheAgentToken ==
    /\ pc \in { "parsed", "validated", "responded" } => args.agent = EarlyScan(argv)
    /\ (Exited /\ exit_at = "help") =>
          stdout = (IF EarlyScan(argv) THEN show_agent_help ELSE show_human_help)
    /\ (Exited /\ err # NoSite) =>
          (stderr[1].fmt = "json") = EarlyScan(argv)
    /\ (Exited /\ exit_at = "output") =>
          (stdout[1].indent = 0) = EarlyScan(argv)

\* C10: a validated POST is sent with a body equal to the JSON encoding of
\* the parsed --data, whatever JSON value that is.
C10_PostCarriesBody ==
    (request # NoRequest /\ request.method = "POST") =>
        /\ request.body # None
        /\ request.body = JsonDumps(post_data)

====
